---- MODULE Spec2Model ----
(***************************************************************************)
(* A model of weewx's image generator, bin/weewx/imagegenerator.py:       *)
(* ImageGenerator.genImages (the pass over plots and their lines),        *)
(* skipThisPlot and generatePoints.                                       *)
(*                                                                         *)
(* Encodings.                                                              *)
(*  - An optional value (Python None or a value) is a set with at most    *)
(*    one element: None == {} and Some(v) == {v}.                          *)
(*  - Python's None as an option *string* is the string "<None>".          *)
(*  - Samples of time vectors are held in half-second ticks (T(s) = 2*s),  *)
(*    so that the float expression  x - aggregate_interval / 2.0  is       *)
(*    exact in integers for odd intervals too.                             *)
(*  - line_gap_fraction is held in tenths (5 stands for 0.5).              *)
(*  - The local zone of datetime.fromtimestamp is taken to be UTC.         *)
(***************************************************************************)
EXTENDS Integers, Sequences, FiniteSets, TLC

\* ------------------------------------------------------------------ bounds
\* Number of plots configured over all time spans.
NPlots == 2
\* Largest number of lines configured in a plot.
MaxLines == 2
\* Largest number of samples a data source returns.
MaxLen == 2
\* Largest offset (seconds) of a timestamp from local midnight.
MaxOffset == 4
\* Largest aggregate_interval (seconds) in the configuration.
MaxInterval == 4
\* Largest length (seconds) of a plot's time window.
MaxSpan == 3
\* Largest stale_age (seconds) in the configuration.
MaxStale == 2

\* -------------------------------------------------------- program constants
\* datetime: seconds in a day (time_dt minus its midnight, tdiff.seconds).
SecondsPerDay == 86400
\* skipThisPlot: the boundary tolerance in seconds.
SkipTolerance == 1
\* genImages: generatePoints is called with timeinc / 50.
PointsPerTick == 50

None == {}
Some(v) == {v}
Val(o) == CHOOSE v \in o : TRUE
PyNone == "<None>"

\* Seconds to half-second ticks.
T(s) == 2 * s

Min(a, b) == IF a < b THEN a ELSE b

\* A local midnight, and the timestamps of the model.
Day0 == SecondsPerDay * 100
TsSet == { Day0 + o : o \in 0..MaxOffset }
MTimes == { Day0 + o : o \in (0 - 2)..MaxOffset }
Intervals == 1..MaxInterval

\* What a plot finds when it begins: its anchor timestamp, its image file
\* (the file's mtime, if it exists) and its aggregate_interval option.
PlotInputs ==
    [ time_ts : TsSet,
      file : { None } \cup { Some(m) : m \in MTimes },
      aggregate_interval : { None } \cup { Some(i) : i \in Intervals } ]

\* The plots of the passes of Spec: anchored two seconds after midnight,
\* without an image or with one a second old, without an aggregate interval
\* or with the largest one.
PassInputs ==
    [ time_ts : { Day0 + 2 },
      file : { None, Some(Day0 + 1) },
      aggregate_interval : { None, Some(MaxInterval) } ]

VARIABLES
    pc,          \* position in genImages
    debug,       \* weewx.debug
    converter,   \* self.converter: unit group -> target unit
    ngen,        \* the count of generated images
    reported,    \* the count logged at the end (None until then)
    error,       \* the exception that left genImages ("none" if none)
    plotno,      \* index of the plot at hand
    plotgen_ts,  \* local: the plot's anchor timestamp (optional)
    ai,          \* local: the plot's aggregate_interval (optional)
    img,         \* the plot's image file: its mtime if it exists (optional)
    skip_ret,    \* what skipThisPlot returned for the plot at hand
    window,      \* local: (minstamp, maxstamp, timeinc)
    nlines,      \* number of lines configured in the plot at hand
    lineno,      \* index of the line at hand
    stop_vec_t,  \* local stop_vec_t: unbound until an archive line assigns it
    line_list,   \* plot.line_list: the names (indices) of the lines added
    call,        \* the last line iteration: its options, data and outcome
    bad,         \* the lines of the plot at hand skipped for their options
    dirs,        \* the plots whose output directory os.makedirs was asked for
    stale,       \* local: the plot's stale_age option (optional)
    t_now,       \* local: time.time() of the staleness check (optional)
    status       \* what became of each plot

vars == <<pc, debug, converter, ngen, reported, error, plotno, plotgen_ts, ai,
          img, skip_ret, window, nlines, lineno, stop_vec_t, line_list, call,
          bad, dirs, stale, t_now, status>>

\* ------------------------------------------------------------ skipThisPlot
\* tdiff.seconds: the seconds of time_ts since local midnight.
SecondsSinceMidnight(time_ts) == time_ts % SecondsPerDay

OnBoundaryMutant(time_ts, aggregate_interval) ==
    (SecondsSinceMidnight(time_ts) % aggregate_interval) <= SkipTolerance

\* return abs(tdiff.seconds % aggregate_interval) > 1
OffBoundary(time_ts, aggregate_interval) ==
    LET m == SecondsSinceMidnight(time_ts) % aggregate_interval
        a == IF m < 0 THEN 0 - m ELSE m
    IN  a > SkipTolerance

TooOldMutant(time_ts, mtime, aggregate_interval) ==
    time_ts - mtime > aggregate_interval

\* time_ts - os.stat(img_file).st_mtime >= aggregate_interval
TooOld(time_ts, mtime, aggregate_interval) ==
    time_ts - mtime >= aggregate_interval

\* skipThisPlot(time_ts, aggregate_interval, img_file); file is the optional
\* mtime of img_file.
skipThisPlot(time_ts, aggregate_interval, file) ==
    IF aggregate_interval = None \/ file = None
    THEN FALSE
    ELSE IF TooOld(time_ts, Val(file), Val(aggregate_interval))
    THEN FALSE
    ELSE OffBoundary(time_ts, Val(aggregate_interval))

\* ---------------------------------------------------------- generatePoints
\* The expressions (function_definition) of the model and what Python's eval
\* makes of them once 'x' is replaced by the sample: "x*2" evaluates for
\* every x, "x+" is a syntax error for every x, and "(x-c)/(x-c)" divides by
\* zero at x = c and is 1 elsewhere.
FuncDefs == { "x*2", "x+", "(x-8640000)/(x-8640000)",
              "(x-8640001)/(x-8640001)", "(x-8640002)/(x-8640002)" }

ZeroAt(func_def) ==
    CASE func_def = "(x-8640000)/(x-8640000)" -> Some(Day0)
      [] func_def = "(x-8640001)/(x-8640001)" -> Some(Day0 + 1)
      [] func_def = "(x-8640002)/(x-8640002)" -> Some(Day0 + 2)
      [] OTHER -> None

\* Whether eval(expr) or float(result) raises for the sample x.
EvalFails(func_def, x) == func_def = "x+" \/ ZeroAt(func_def) = Some(x)

\* y = float(eval(expr)) where it does not raise.
EvalValue(func_def, x) == IF func_def = "x*2" THEN x * 2 ELSE 1

\* len(range(xmin, xmax, xinc)) for xinc # 0.
RangeLen(xmin, xmax, xinc) ==
    IF xinc > 0
    THEN IF xmax > xmin THEN (xmax - xmin + xinc - 1) \div xinc ELSE 0
    ELSE IF xmin > xmax THEN (xmin - xmax - xinc - 1) \div (0 - xinc) ELSE 0

\* range(xmin, xmax, xinc) for xinc # 0.
Range(xmin, xmax, xinc) ==
    [k \in 1..RangeLen(xmin, xmax, xinc) |-> xmin + (k - 1) * xinc]

\* Whether the try block of generatePoints raises: range() refuses a zero
\* step, or the evaluation fails for one of the samples.
GenFails(func_def, xmin, xmax, xinc) ==
    \/ xinc = 0
    \/ \E k \in 1..RangeLen(xmin, xmax, xinc) :
          EvalFails(func_def, Range(xmin, xmax, xinc)[k])

\* A ValueTuple (value, unit type, unit group).
ValueTuple(value, unit, group) == [value |-> value, unit |-> unit, group |-> group]

\* What the loop of generatePoints has appended to start_vec (= stop_vec) and
\* to data_vec when it ends or is left by an exception: the samples before
\* the first failing one.
Accumulated(func_def, xmin, xmax, xinc) ==
    IF xinc = 0 THEN << >>
    ELSE LET r == Range(xmin, xmax, xinc)
             bad_ks == { k \in 1..Len(r) : EvalFails(func_def, r[k]) }
             n == IF bad_ks = {} THEN Len(r)
                  ELSE (CHOOSE k \in bad_ks : \A j \in bad_ks : k <= j) - 1
         IN  [k \in 1..n |-> r[k]]

KeepAccumulatedMutant(func_type, func_def, xmin, xmax, xinc) ==
    LET xs == Accumulated(func_def, xmin, xmax, xinc)
    IN  [start |-> ValueTuple([k \in 1..Len(xs) |-> T(xs[k])], PyNone, PyNone),
         stop  |-> ValueTuple([k \in 1..Len(xs) |-> T(xs[k])], PyNone, PyNone),
         data  |-> ValueTuple([k \in 1..Len(xs) |-> EvalValue(func_def, xs[k])],
                              PyNone, PyNone)]

\* generatePoints(func_type, func_def, xmin, xmax, xinc). The unit system is
\* None, so the unit type and group of the three vectors are None.
generatePoints(func_type, func_def, xmin, xmax, xinc) ==
    IF GenFails(func_def, xmin, xmax, xinc)
    THEN [start |-> ValueTuple(<<0>>, PyNone, PyNone),
          stop  |-> ValueTuple(<<0>>, PyNone, PyNone),
          data  |-> ValueTuple(<<0>>, PyNone, PyNone)]
    ELSE LET xs == Accumulated(func_def, xmin, xmax, xinc)
         IN  [start |-> ValueTuple([k \in 1..Len(xs) |-> T(xs[k])], PyNone, PyNone),
              stop  |-> ValueTuple([k \in 1..Len(xs) |-> T(xs[k])], PyNone, PyNone),
              data  |-> ValueTuple([k \in 1..Len(xs) |-> EvalValue(func_def, xs[k])],
                                   PyNone, PyNone)]

\* ------------------------------------------------------------- Converter
\* The unit groups of the model and the two target unit systems a skin may
\* configure (self.converter, built from the skin in setup()).
Converters ==
    { [group_time |-> "unix_epoch", group_temperature |-> "degree_F"],
      [group_time |-> "dublin_jd", group_temperature |-> "degree_C"] }

\* One sample converted. Linear conversions, in integers: degree_F to
\* degree_C is (v - 32) * 5 / 9; the time conversion stands in for
\* unix_epoch to dublin_jd (a scale and an offset) with integer coefficients.
ConvertValue(from, to, v) ==
    CASE from = to -> v
      [] from = "degree_F" /\ to = "degree_C" -> ((v - 32) * 5) \div 9
      [] from = "unix_epoch" /\ to = "dublin_jd" -> 3 * v + 1
      [] OTHER -> v

\* self.converter.convert(val_t): a new ValueTuple, sample by sample; a
\* ValueTuple without unit and group is returned as it is.
convert(val_t) ==
    IF val_t.unit = PyNone /\ val_t.group = PyNone
    THEN val_t
    ELSE LET to == converter[val_t.group]
         IN  ValueTuple([k \in 1..Len(val_t.value) |->
                             ConvertValue(val_t.unit, to, val_t.value[k])],
                        to, val_t.group)

\* --------------------------------------------------------------- Archive
\* archive.getSqlVectors((minstamp, maxstamp), var_type, aggregate_type,
\* aggregate_interval) returning n samples, with a start vector of m samples
\* (m # n is a data source that breaks its contract). Sample k covers the
\* interval (minstamp + (k-1)*step, minstamp + k*step], in degree_F.
getSqlVectors(minstamp, aggregate_interval, n, m) ==
    LET step == IF aggregate_interval = None THEN 1 ELSE Val(aggregate_interval)
    IN  [start |-> ValueTuple([k \in 1..m |-> T(minstamp + (k - 1) * step)],
                              "unix_epoch", "group_time"),
         stop  |-> ValueTuple([k \in 1..n |-> T(minstamp + k * step)],
                              "unix_epoch", "group_time"),
         data  |-> ValueTuple([k \in 1..n |-> 32 + 9 * k],
                              "degree_F", "group_temperature")]

\* ---------------------------------------------------- the options of a line
AggTypes == { PyNone, "none", "avg", "Max", "MIN", "sum" }
LineIntervals == { None } \cup { Some(i) : i \in (MaxInterval - 1)..MaxInterval }
GapFractions == { None, Some(0 - 5), Some(0), Some(5), Some(10), Some(15) }

\* if aggregate_type in (None, '', 'None', 'none')
NoAggregation(aggregate_type) == aggregate_type \in { PyNone, "", "None", "none" }

\* The aggregate options of a line: its aggregate_type with its
\* aggregate_interval (not read for a line without aggregation).
AggChoices ==
    { <<t, None>> : t \in { a \in AggTypes : NoAggregation(a) } }
      \cup { <<t, i>> : t \in { a \in AggTypes : ~NoAggregation(a) },
                        i \in LineIntervals }

\* The plot options of a line: its plot_type with its line_gap_fraction (read
\* for a 'line' only, which an absent plot_type is).
PlotChoices ==
    { <<t, None>> : t \in { "bar", "vector" } }
      \cup { <<t, g>> : t \in { PyNone, "line" }, g \in GapFractions }

\* line_options: the archive lines (data_type 'outTemp'; the function options
\* are not read) and the function lines with the given choices.
Options(aggs, plots, func_types, func_defs) ==
    { [ data_type |-> "outTemp", aggregate_type |-> a[1],
        aggregate_interval |-> a[2], plot_type |-> p[1],
        line_gap_fraction |-> p[2], function_type |-> None,
        function_definition |-> None ] : a \in aggs, p \in plots }
      \cup
    { [ data_type |-> "function", aggregate_type |-> a[1],
        aggregate_interval |-> a[2], plot_type |-> p[1],
        line_gap_fraction |-> p[2], function_type |-> ft,
        function_definition |-> fd ] :
          a \in aggs, p \in plots, ft \in func_types, fd \in func_defs }

\* Every line_options of the model.
LineOptions ==
    Options(AggChoices, PlotChoices, { None, Some("outTemp") },
            { None } \cup { Some(f) : f \in FuncDefs })

\* str.lower() on the aggregate types of the model.
Lower(str) ==
    CASE str = "Max" -> "max"
      [] str = "MIN" -> "min"
      [] OTHER -> str

\* if aggregate_type and aggregate_type.lower() in ('avg', 'max', 'min')
\*    and plot_type != 'bar'
ShiftApplies(aggregate_type, plot_type) ==
    /\ aggregate_type # PyNone
    /\ aggregate_type # ""
    /\ Lower(aggregate_type) \in { "avg", "max", "min" }
    /\ plot_type # "bar"

MidpointFloorMutant(vec_t, aggregate_interval) ==
    ValueTuple([k \in 1..Len(vec_t.value) |->
                    vec_t.value[k] - T(aggregate_interval \div 2)],
               vec_t.unit, vec_t.group)

\* ValueTuple([x - aggregate_interval / 2.0 for x in vec_t[0]], vec_t[1],
\* vec_t[2]), in half-second ticks.
Midpoint(vec_t, aggregate_interval) ==
    ValueTuple([k \in 1..Len(vec_t.value) |->
                    vec_t.value[k] - (T(aggregate_interval) \div 2)],
               vec_t.unit, vec_t.group)

\* interval_vec = [x[1] - x[0] for x in zip(new_start_vec_t.value,
\* new_stop_vec_t.value)]
BarWidth(start_vec_t, stop_t, new_start_vec_t, new_stop_t) ==
    [k \in 1..Min(Len(new_start_vec_t.value), Len(new_stop_t.value)) |->
        new_stop_t.value[k] - new_start_vec_t.value[k]]

GapFractionInclusiveMutant(line_gap_fraction) ==
    IF line_gap_fraction # None
       /\ ~(0 <= Val(line_gap_fraction) /\ Val(line_gap_fraction) <= 10)
    THEN None
    ELSE line_gap_fraction

\* gap_fraction = to_float(line_options.get('line_gap_fraction')), dropped
\* if not 0 < gap_fraction < 1 (in tenths).
GapFraction(line_gap_fraction) ==
    IF line_gap_fraction # None
       /\ ~(0 < Val(line_gap_fraction) /\ Val(line_gap_fraction) < 10)
    THEN None
    ELSE line_gap_fraction

\* len(val_t) of a ValueTuple (weewx.units): the number of its samples.
len(val_t) == Len(val_t.value)

AssertSkippedMutant(start_vec_t, stop_t) == FALSE

\* if weewx.debug: assert(len(start_vec_t) == len(stop_vec_t))
AssertFails(start_vec_t, stop_t) ==
    debug /\ len(start_vec_t) # len(stop_t)

\* The record of a line iteration in which nothing was fetched or added.
NoCall ==
    [ plot |-> 0, line |-> 0, mode |-> "none", outcome |-> "none",
      aggregate_type |-> PyNone, aggregate_interval |-> None,
      func_def |-> None, line_gap_fraction |-> None, fetched |-> FALSE,
      src_start |-> << >>, src_stop |-> << >>, src_data |-> << >>,
      start |-> << >>, stop |-> << >>, new_start |-> << >>,
      x |-> << >>, y |-> << >>, plot_type |-> "line",
      bar_width |-> None, gap_fraction |-> None ]

\* Lines 185-352: from the assertion to plot.addLine, for a line whose data
\* source call has set start_vec_t and data_vec_t; stop is the local
\* stop_vec_t (None while it is unbound). The result holds the outcome, the
\* local stop_vec_t afterwards and the PlotLine added.
LineBody(o, aggregate_type, aggregate_interval, start_vec_t, stop, data_vec_t) ==
    IF stop = None
    THEN [ outcome |-> "UnboundLocalError", stop_vec_t |-> stop ]
    ELSE IF AssertFails(start_vec_t, Val(stop))
    THEN [ outcome |-> "AssertionError", stop_vec_t |-> stop ]
    ELSE
    LET plot_type == IF o.plot_type = PyNone THEN "line" ELSE o.plot_type
        shift == ShiftApplies(aggregate_type, plot_type)
        start2 == IF shift THEN Midpoint(start_vec_t, Val(aggregate_interval))
                  ELSE start_vec_t
        stop2 == IF shift THEN Midpoint(Val(stop), Val(aggregate_interval))
                 ELSE Val(stop)
        new_start_vec_t == convert(start2)
        new_stop_vec_t == convert(stop2)
        new_data_vec_t == convert(data_vec_t)
    IN  [ outcome |-> "added", stop_vec_t |-> Some(stop2),
          start |-> start2.value, stop |-> stop2.value,
          new_start |-> new_start_vec_t.value,
          x |-> new_stop_vec_t.value, y |-> new_data_vec_t.value,
          plot_type |-> plot_type,
          bar_width |-> IF plot_type = "bar"
                        THEN Some(BarWidth(start2, stop2, new_start_vec_t,
                                           new_stop_vec_t))
                        ELSE None,
          gap_fraction |-> IF plot_type = "line"
                           THEN GapFraction(o.line_gap_fraction)
                           ELSE None ]

\* ------------------------------------------------------------- the pass
\* The time windows (minstamp, maxstamp, timeinc) weeplot.utilities.scaletime
\* and the x_interval option make: timeinc / 50 is 0, 1 or 2.
Windows ==
    { [min |-> Day0, max |-> Day0 + span, inc |-> inc] :
        span \in (MaxSpan - 1)..MaxSpan,
        inc \in { PointsPerTick - 1, PointsPerTick, 2 * PointsPerTick } }

NoWindow == [min |-> 0, max |-> 0, inc |-> 0]

Init ==
    /\ pc = "begin"
    /\ debug \in BOOLEAN
    /\ converter \in Converters
    /\ ngen = 0
    /\ reported = None
    /\ error = "none"
    /\ plotno = 1
    /\ plotgen_ts = None
    /\ ai = None
    /\ img = None
    /\ skip_ret = "unset"
    /\ window = NoWindow
    /\ nlines = 0
    /\ lineno = 0
    /\ stop_vec_t = None
    /\ line_list = << >>
    /\ call = NoCall
    /\ bad = {}
    /\ dirs = {}
    /\ stale = None
    /\ t_now = None
    /\ status = [p \in 1..NPlots |-> "pending"]

\* Lines 69-88: the next plot of the loops over time spans and plot names.
\* plotgen_ts is gen_ts, else archive.lastGoodStamp(), else time.time(): a
\* timestamp; img is the file at img_file; ai is the plot's
\* aggregate_interval option.
BeginPlot(inputs) ==
    /\ pc = "begin"
    /\ plotno <= NPlots
    /\ \E in \in inputs :
          /\ plotgen_ts' = Some(in.time_ts)
          /\ img' = in.file
          /\ ai' = in.aggregate_interval
    /\ skip_ret' = "unset"
    /\ pc' = "skip"
    /\ UNCHANGED <<debug, converter, ngen, reported, error, plotno, window,
                   nlines, lineno, stop_vec_t, line_list, call, bad, dirs,
                   status,
                   stale, t_now>>

\* Lines 90-91: skipThisPlot says skip; continue with the next plot.
SkipPlot ==
    /\ pc = "skip"
    /\ skipThisPlot(Val(plotgen_ts), ai, img)
    /\ skip_ret' = "True"
    /\ status' = [status EXCEPT ![plotno] = "skipped"]
    /\ plotno' = plotno + 1
    /\ pc' = "begin"
    /\ UNCHANGED <<debug, converter, ngen, reported, error, plotgen_ts, ai, img,
                   window, nlines, lineno, stop_vec_t, line_list, call, bad,
                   dirs,
                   stale, t_now>>

\* The stale_age options of the model.
StaleAges == { None } \cup { Some(a) : a \in 1..MaxStale }

\* Lines 90-96: skipThisPlot says regenerate; stale is the plot's stale_age
\* option and, if it is set, t_now is time.time().
KeepPlot ==
    /\ pc = "skip"
    /\ ~skipThisPlot(Val(plotgen_ts), ai, img)
    /\ skip_ret' = "False"
    /\ \E stale_age \in StaleAges, now \in TsSet :
          /\ stale' = stale_age
          /\ t_now' = IF stale_age = None THEN None ELSE Some(now)
    /\ pc' = "stale"
    /\ UNCHANGED <<debug, converter, ngen, reported, error, plotno, plotgen_ts,
                   ai, img, window, nlines, lineno, stop_vec_t, line_list, call,
                   bad, dirs, status>>

IsFreshInclusiveMutant(stale_age, now, file) ==
    stale_age # None /\ file # None /\ Val(now) - Val(file) <= Val(stale_age)

\* Lines 95-103: whether the staleness check skips the plot: stale_age is
\* set, the file exists (os.path.getmtime does not raise) and
\* t_now - last_mod < stale.
IsFresh(stale_age, now, file) ==
    stale_age # None /\ file # None /\ Val(now) - Val(file) < Val(stale_age)

\* Lines 94-101: the image is fresh; continue with the next plot, which
\* sets the plot's locals anew.
FreshPlot ==
    /\ pc = "stale"
    /\ IsFresh(stale, t_now, img)
    /\ status' = [status EXCEPT ![plotno] = "fresh"]
    /\ plotno' = plotno + 1
    /\ pc' = "begin"
    /\ plotgen_ts' = None
    /\ ai' = None
    /\ img' = None
    /\ skip_ret' = "unset"
    /\ stale' = None
    /\ t_now' = None
    /\ UNCHANGED <<debug, converter, ngen, reported, error, window, nlines,
                   lineno, stop_vec_t, line_list, call, bad, dirs>>

\* Lines 94-137: the image is not fresh: make the directory, create the
\* TimePlot and scale it. The locals plotgen_ts and ai are not read again
\* before the next plot sets them.
SetupPlot ==
    /\ pc = "stale"
    /\ ~IsFresh(stale, t_now, img)
    /\ dirs' = dirs \cup { plotno }
    /\ window' \in Windows
    /\ nlines' \in 0..MaxLines
    /\ lineno' = 0
    /\ line_list' = << >>
    /\ bad' = {}
    /\ plotgen_ts' = None
    /\ ai' = None
    /\ img' = None
    /\ skip_ret' = "unset"
    /\ stale' = None
    /\ t_now' = None
    /\ pc' = "line"
    /\ UNCHANGED <<debug, converter, ngen, reported, error, plotno, stop_vec_t,
                   call, status>>

\* Lines 149-152: the aggregate type and interval of a line with options o
\* whose interval, if one is needed, is there.
AggregateType(o) ==
    IF NoAggregation(o.aggregate_type) THEN PyNone ELSE o.aggregate_type

AggregateInterval(o) ==
    IF NoAggregation(o.aggregate_type) THEN None ELSE o.aggregate_interval

\* Lines 154-160: as_int('aggregate_interval') raises KeyError.
MissingInterval(o) ==
    ~NoAggregation(o.aggregate_type) /\ o.aggregate_interval = None

\* Lines 163-171: a function line without function_type or
\* function_definition.
MissingFunction(o) ==
    /\ o.data_type = "function"
    /\ (o.function_type = None \/ o.function_definition = None)

\* The record of a line iteration that ended in 'continue'.
SkippedCall(o) ==
    [ NoCall EXCEPT !.plot = plotno, !.line = lineno, !.outcome = "skipped",
                    !.mode = IF o.data_type = "function" THEN "function"
                             ELSE "archive" ]

\* The record of a line iteration that called its data source (src) and ran
\* the line body with result r.
BodyCall(o, mode, src, r) ==
    LET base == [ NoCall EXCEPT !.plot = plotno, !.line = lineno,
                      !.mode = mode, !.outcome = r.outcome,
                      !.aggregate_type = AggregateType(o),
                      !.aggregate_interval = AggregateInterval(o),
                      !.func_def = o.function_definition,
                      !.line_gap_fraction = o.line_gap_fraction,
                      !.fetched = TRUE,
                      !.src_start = src.start.value,
                      !.src_stop = src.stop.value,
                      !.src_data = src.data.value ]
    IN  IF r.outcome # "added" THEN base
        ELSE [ base EXCEPT !.start = r.start, !.stop = r.stop,
                           !.new_start = r.new_start, !.x = r.x, !.y = r.y,
                           !.plot_type = r.plot_type,
                           !.bar_width = r.bar_width,
                           !.gap_fraction = r.gap_fraction ]

\* Lines 139-146: the loop over the plot's lines takes the next line; what
\* the iteration before it left in its locals (but stop_vec_t) is not read
\* again.
NextLine ==
    /\ pc = "line"
    /\ lineno < nlines
    /\ lineno' = lineno + 1
    /\ call' = NoCall
    /\ pc' = "body"
    /\ UNCHANGED <<debug, converter, ngen, reported, error, plotno, plotgen_ts,
                   ai, img, skip_ret, window, nlines, stop_vec_t, line_list,
                   bad, dirs, status,
                   stale, t_now>>

\* Lines 154-160: aggregate type without aggregate interval; the line is
\* skipped.
LineSkipNoInterval(options) ==
    /\ pc = "body"
    /\ \E o \in options :
          /\ MissingInterval(o)
          /\ call' = SkippedCall(o)
    /\ bad' = bad \cup { lineno }
    /\ pc' = "line"
    /\ UNCHANGED <<debug, converter, ngen, reported, error, plotno, plotgen_ts,
                   ai, img, skip_ret, window, nlines, lineno, stop_vec_t,
                   line_list, dirs, status,
                   stale, t_now>>

\* Lines 163-171: function line without its type or definition; the line is
\* skipped.
LineSkipNoFunction(options) ==
    /\ pc = "body"
    /\ \E o \in options :
          /\ ~MissingInterval(o)
          /\ MissingFunction(o)
          /\ call' = SkippedCall(o)
    /\ bad' = bad \cup { lineno }
    /\ pc' = "line"
    /\ UNCHANGED <<debug, converter, ngen, reported, error, plotno, plotgen_ts,
                   ai, img, skip_ret, window, nlines, lineno, stop_vec_t,
                   line_list, dirs, status,
                   stale, t_now>>

FinishSwallowMutant(r) ==
    /\ stop_vec_t' = r.stop_vec_t
    /\ pc' = "line"
    /\ IF r.outcome = "added"
       THEN /\ line_list' = Append(line_list, lineno)
            /\ UNCHANGED <<error, status>>
       ELSE /\ error' = r.outcome
            /\ UNCHANGED <<line_list, status>>

\* What the line body's result r does to the pass: the line is added and the
\* loop goes on, or the exception leaves genImages.
Finish(r) ==
    /\ stop_vec_t' = r.stop_vec_t
    /\ IF r.outcome = "added"
       THEN /\ line_list' = Append(line_list, lineno)
            /\ pc' = "line"
            /\ UNCHANGED <<error, status>>
       ELSE /\ pc' = "crashed"
            /\ error' = r.outcome
            /\ status' = [status EXCEPT ![plotno] = "aborted"]
            /\ UNCHANGED line_list

\* Lines 172-352 for a function line: generatePoints sets start_vec_t,
\* end_vec_t and data_vec_t; stop_vec_t is the one an earlier line left.
FunctionResult(o) ==
    generatePoints(Val(o.function_type), Val(o.function_definition),
                   window.min, window.max, window.inc \div PointsPerTick)

LineFunction(options) ==
    /\ pc = "body"
    /\ \E o \in options :
          /\ ~MissingInterval(o)
          /\ o.data_type = "function"
          /\ ~MissingFunction(o)
          /\ LET src == FunctionResult(o)
                 r == LineBody(o, AggregateType(o), AggregateInterval(o),
                               src.start, stop_vec_t, src.data)
             IN  /\ call' = BodyCall(o, "function", src, r)
                 /\ Finish(r)
    /\ UNCHANGED <<debug, converter, ngen, reported, plotno, plotgen_ts, ai,
                   img, skip_ret, window, nlines, lineno, bad, dirs,
                   stale, t_now>>

\* Lines 176-352 for an archive line: getSqlVectors sets start_vec_t,
\* stop_vec_t and data_vec_t.
LineArchive(options) ==
    /\ pc = "body"
    /\ \E o \in options, n \in 0..MaxLen, m \in 0..MaxLen :
          /\ ~MissingInterval(o)
          /\ o.data_type # "function"
          /\ LET src == getSqlVectors(window.min, AggregateInterval(o), n, m)
                 r == LineBody(o, AggregateType(o), AggregateInterval(o),
                               src.start, Some(src.stop), src.data)
             IN  /\ call' = BodyCall(o, "archive", src, r)
                 /\ Finish(r)
    /\ UNCHANGED <<debug, converter, ngen, reported, plotno, plotgen_ts, ai,
                   img, skip_ret, window, nlines, lineno, bad, dirs,
                   stale, t_now>>

\* The plot and the locals of its lines are not read again once the image
\* is saved or the save has failed: the next plot sets them anew.
PlotDone ==
    /\ window' = NoWindow
    /\ nlines' = 0
    /\ lineno' = 0
    /\ line_list' = << >>
    /\ bad' = {}
    /\ call' = NoCall

\* Lines 355-360: the plot is rendered and the image saved.
SaveOk ==
    /\ pc = "line"
    /\ lineno = nlines
    /\ ngen' = ngen + 1
    /\ status' = [status EXCEPT ![plotno] = "saved"]
    /\ plotno' = plotno + 1
    /\ pc' = "begin"
    /\ PlotDone
    /\ UNCHANGED <<debug, converter, reported, error, plotgen_ts, ai, img,
                   skip_ret, stop_vec_t, dirs,
                   stale, t_now>>

SaveFailsCountsMutant ==
    /\ pc = "line"
    /\ lineno = nlines
    /\ ngen' = ngen + 1
    /\ status' = [status EXCEPT ![plotno] = "unsaved"]
    /\ plotno' = plotno + 1
    /\ pc' = "begin"
    /\ PlotDone
    /\ UNCHANGED <<debug, converter, reported, error, plotgen_ts, ai, img,
                   skip_ret, stop_vec_t, dirs,
                   stale, t_now>>

\* Lines 355-362: the plot is rendered and image.save raises IOError, which
\* is logged.
SaveFails ==
    /\ pc = "line"
    /\ lineno = nlines
    /\ status' = [status EXCEPT ![plotno] = "unsaved"]
    /\ plotno' = plotno + 1
    /\ pc' = "begin"
    /\ PlotDone
    /\ UNCHANGED <<debug, converter, ngen, reported, error, plotgen_ts, ai, img,
                   skip_ret, stop_vec_t, dirs,
                   stale, t_now>>

\* Lines 363-366: after the last plot the count is logged, if the skin's
\* log_success says so.
Report ==
    /\ pc = "begin"
    /\ plotno > NPlots
    /\ \E log_success \in BOOLEAN :
          reported' = IF log_success THEN Some(ngen) ELSE None
    /\ pc' = "done"
    /\ UNCHANGED <<debug, converter, ngen, error, plotno, plotgen_ts, ai, img,
                   skip_ret, window, nlines, lineno, stop_vec_t, line_list,
                   call, bad, dirs, status,
                   stale, t_now>>

\* The line options of the passes of Spec: lines with and without the 'avg'
\* aggregation, of plot type 'line' and 'bar', from the archive and from the
\* function "x*2", with and without the options they need.
PassOptions ==
    Options({ <<PyNone, None>>, <<"avg", None>>, <<"avg", Some(MaxInterval - 1)>> },
            { <<"line", None>>, <<"bar", None>> },
            { None, Some("outTemp") }, { None, Some("x*2") })

\* A pass over NPlots plots.
Next ==
    \/ BeginPlot(PassInputs)
    \/ SkipPlot
    \/ KeepPlot
    \/ FreshPlot
    \/ SetupPlot
    \/ NextLine
    \/ LineSkipNoInterval(PassOptions)
    \/ LineSkipNoFunction(PassOptions)
    \/ LineFunction(PassOptions)
    \/ LineArchive(PassOptions)
    \/ SaveOk
    \/ SaveFails
    \/ Report

Spec == Init /\ [][Next]_vars

\* The skip decision of the first plot of a pass, for every timestamp, image
\* file and aggregate interval of the model.
NextSkip ==
    \/ plotno = 1 /\ BeginPlot(PlotInputs)
    \/ SkipPlot
    \/ KeepPlot

SpecSkip == Init /\ [][NextSkip]_vars

\* The lines of the first plot of a pass, with every line option of the
\* model.
NextLines ==
    \/ plotno = 1 /\ BeginPlot(PassInputs)
    \/ KeepPlot
    \/ SetupPlot
    \/ NextLine
    \/ LineSkipNoInterval(LineOptions)
    \/ LineSkipNoFunction(LineOptions)
    \/ LineFunction(LineOptions)
    \/ LineArchive(LineOptions)

SpecLines == Init /\ [][NextLines]_vars

\* ================================================================ claims
\* What the claims about skipThisPlot read off the state: the call has
\* returned (skip_ret) and its arguments are still the plot's locals.
SkipDecided == skip_ret # "unset"

SkipOffset == SecondsSinceMidnight(Val(plotgen_ts)) % Val(ai)

\* aggregate_interval is set and above 2 seconds, the image exists and
\* target_ts - artifact_mtime < aggregate_interval.
SkipFreshCase ==
    /\ SkipDecided
    /\ ai # None
    /\ img # None
    /\ Val(ai) > 2
    /\ Val(plotgen_ts) - Val(img) < Val(ai)

\* C1 as stated: in the fresh case skipThisPlot returns true when the offset
\* from local midnight modulo the interval is 0, and false when that offset
\* is half the interval.
C1_Original ==
    SkipFreshCase =>
        /\ (SkipOffset = 0 => skip_ret = "True")
        /\ (2 * SkipOffset = Val(ai) => skip_ret = "False")

\* C1 amended: in the fresh case skipThisPlot returns false (regenerate) when
\* the offset from local midnight modulo the interval is 0, and true (skip)
\* when that offset is exactly half the interval.
C1_Amended ==
    SkipFreshCase =>
        /\ (SkipOffset = 0 => skip_ret = "False")
        /\ (2 * SkipOffset = Val(ai) => skip_ret = "True")

C1_Witness ==
    /\ SkipFreshCase
    /\ 2 * SkipOffset = Val(ai)
    /\ skip_ret = "True"
    /\ status[1] = "skipped"

\* C2: skipThisPlot returns false whenever aggregate_interval is unset, or
\* the image does not exist, or target_ts - artifact_mtime >=
\* aggregate_interval, whatever the offset from local midnight.
C2_NeverSkip ==
    (/\ SkipDecided
     /\ \/ ai = None
        \/ img = None
        \/ Val(plotgen_ts) - Val(img) >= Val(ai))
    => skip_ret = "False" /\ pc = "stale"

\* An image exactly aggregate_interval old, at an offset that would
\* otherwise make the plot skipped.
C2_Witness ==
    /\ SkipDecided
    /\ ai # None
    /\ img # None
    /\ Val(plotgen_ts) - Val(img) = Val(ai)
    /\ SkipOffset > SkipTolerance
    /\ skip_ret = "False"

\* What the claims about a line read off the state: call is the line
\* iteration that has just ended.
LineAdded == call.outcome = "added"

\* avg, max or min in any letter case.
IsAvgMaxMin(aggregate_type) ==
    aggregate_type \in { "avg", "Avg", "AVG", "max", "Max", "MAX",
                         "min", "Min", "MIN" }

\* The samples of vec, each moved back by half of interval seconds (interval
\* half-second ticks).
MovedBack(vec, interval) == [k \in 1..Len(vec) |-> vec[k] - interval]

\* C3: for a line built from fetched vectors, if aggregate_type is avg, max
\* or min in any letter case and plot_type is not 'bar', the start and the
\* stop vector before unit conversion are the fetched ones with every sample
\* moved back by aggregate_interval/2, length and order unchanged; in every
\* other case they are exactly the fetched ones.
C3_MidpointShift ==
    (LineAdded /\ call.mode = "archive") =>
        IF IsAvgMaxMin(call.aggregate_type) /\ call.plot_type # "bar"
        THEN /\ call.start = MovedBack(call.src_start, Val(call.aggregate_interval))
             /\ call.stop = MovedBack(call.src_stop, Val(call.aggregate_interval))
        ELSE /\ call.start = call.src_start
             /\ call.stop = call.src_stop

\* A 'Max' line of an odd interval with as many samples as the archive gives.
C3_Witness ==
    /\ LineAdded
    /\ call.mode = "archive"
    /\ call.aggregate_type = "Max"
    /\ call.aggregate_interval # None
    /\ Val(call.aggregate_interval) % 2 = 1
    /\ call.plot_type = "line"
    /\ Len(call.src_stop) = MaxLen
    /\ Len(call.src_start) = MaxLen
    /\ call.stop = MovedBack(call.src_stop, Val(call.aggregate_interval))

\* The stop vector before conversion that a line's own data source call
\* accounts for.
OwnStop ==
    IF ShiftApplies(call.aggregate_type, call.plot_type)
    THEN MovedBack(call.src_stop, Val(call.aggregate_interval))
    ELSE call.src_stop

\* C4 as stated: for every line added to a plot, archive or function, the
\* time vector and the data vector handed to the renderer come from that
\* line's own data source call and have equal length.
C4_OwnTimeVector ==
    LineAdded => call.stop = OwnStop /\ Len(call.x) = Len(call.y)

InLineList(i) == \E k \in 1..Len(line_list) : line_list[k] = i

RECURSIVE Declared(_)
Declared(n) ==
    IF n = 0 THEN << >>
    ELSE IF n \in bad THEN Declared(n - 1)
    ELSE Append(Declared(n - 1), n)

\* C7 as stated (but for a data source that breaks its contract): a line with
\* an aggregate type and no interval, or a function line without its type or
\* definition, is not added and fetches nothing; every other line of the plot
\* is built and added, in declaration order, and the plot gets to be rendered.
C7_SkippedLines ==
    /\ (call.outcome = "skipped" => ~call.fetched /\ ~InLineList(call.line))
    /\ (bad # {} /\ pc = "line" => line_list = Declared(lineno))
    /\ (bad # {} /\ pc = "crashed" => error = "AssertionError")

\* The plots whose image was saved.
Saved == { p \in 1..NPlots : status[p] = "saved" }

\* C8: the count is the number of plots whose image was saved: a plot whose
\* save fails or that is skipped is not counted, the pass goes on to the
\* plots after it, and the count reported at the end is that number.
C8_CountIsSaved ==
    /\ ngen = Cardinality(Saved)
    /\ \A p \in 1..NPlots :
          status[p] \in { "unsaved", "skipped", "fresh" } => plotno > p
    /\ (pc = "done" =>
          /\ \A p \in 1..NPlots : status[p] \notin { "pending", "aborted" }
          /\ error = "none"
          /\ reported \in { None, Some(Cardinality(Saved)) })

\* The save of the first plot failed, the second plot was saved, and the
\* count reported is 1.
C8_Witness ==
    /\ pc = "done"
    /\ status[1] = "unsaved"
    /\ status[NPlots] = "saved"
    /\ reported = Some(NPlots - 1)

\* The x of range(xmin, xmax, xinc) for xinc > 0 and xmin < xmax, as a set.
Samples(xmin, xmax, xinc) ==
    { x \in xmin..(xmax - 1) : (x - xmin) % xinc = 0 }

\* C9: if the evaluation fails for a sample of the range, or the increment is
\* 0, generatePoints returns [0] for each of the three vectors; else the
\* three vectors have one sample per x of range(xmin, xmax, xinc), in order,
\* and start[i] = stop[i] = x_i.
C9_GeneratePoints ==
    (call.mode = "function" /\ call.fetched) =>
        LET xinc == window.inc \div PointsPerTick
            xs == IF xinc = 0 THEN {} ELSE Samples(window.min, window.max, xinc)
            fails == \/ xinc = 0
                     \/ \E x \in xs : EvalFails(Val(call.func_def), x)
        IN  IF fails
            THEN /\ call.src_start = <<0>>
                 /\ call.src_stop = <<0>>
                 /\ call.src_data = <<0>>
            ELSE /\ Len(call.src_start) = Cardinality(xs)
                 /\ Len(call.src_stop) = Cardinality(xs)
                 /\ Len(call.src_data) = Cardinality(xs)
                 /\ \A k \in 1..Cardinality(xs) :
                       /\ call.src_start[k] = T(window.min + (k - 1) * xinc)
                       /\ call.src_stop[k] = call.src_start[k]
                       /\ call.src_data[k] =
                            EvalValue(Val(call.func_def), window.min + (k - 1) * xinc)

\* The evaluation fails at the third and last sample, after two samples were
\* accumulated.
C9_Witness ==
    /\ call.mode = "function"
    /\ call.fetched
    /\ call.func_def = Some("(x-8640002)/(x-8640002)")
    /\ window.max = Day0 + 3
    /\ window.inc \div PointsPerTick = 1
    /\ call.src_start = <<0>>
    /\ call.src_data = <<0>>

\* C10 as stated, for a line whose data source keeps its contract: a 'bar'
\* line has a bar_width with one entry per sample of its time vector, the
\* converted stop minus the converted start; a 'line' or 'vector' line has
\* none; gap_fraction is set for a 'line' only, and never both.
C10_BarWidth ==
    (LineAdded /\ Len(call.src_start) = Len(call.src_stop)) =>
        /\ (call.plot_type = "bar" =>
              /\ call.bar_width # None
              /\ Len(Val(call.bar_width)) = Len(call.x)
              /\ \A k \in 1..Len(call.x) :
                    Val(call.bar_width)[k] = call.x[k] - call.new_start[k])
        /\ (call.plot_type # "bar" => call.bar_width = None)
        /\ (call.gap_fraction # None => call.plot_type = "line")
        /\ ~(call.bar_width # None /\ call.gap_fraction # None)

\* Whether the configured line_gap_fraction g (in tenths) lies in the open
\* interval (0, 1).
InOpenUnit(g) == g # None /\ \E v \in 1..9 : g = Some(v)

\* C11: a line of plot type 'line' keeps its configured line_gap_fraction as
\* its gap_fraction if and only if 0 < g < 1; any other g (0 and 1 included)
\* leaves gap_fraction unset, unclamped, and the line is added all the same:
\* a fetched line is not added only when an exception was raised before the
\* gap fraction was looked at.
C11_GapFraction ==
    /\ (LineAdded /\ call.plot_type = "line") =>
          /\ InLineList(call.line)
          /\ call.gap_fraction =
                IF InOpenUnit(call.line_gap_fraction)
                THEN call.line_gap_fraction ELSE None
    /\ (call.fetched /\ ~LineAdded) =>
          \/ call.outcome = "AssertionError" /\ debug
          \/ /\ call.outcome = "UnboundLocalError"
             /\ call.mode = "function"
             /\ stop_vec_t = None

\* A 'line' with line_gap_fraction exactly 1 is added without a gap
\* fraction.
C11_Witness ==
    /\ LineAdded
    /\ call.plot_type = "line"
    /\ call.line_gap_fraction = Some(10)
    /\ call.gap_fraction = None
    /\ InLineList(call.line)

\* stale_age is configured, the image exists and now - artifact_mtime <
\* stale_age, for the plot whose staleness check is at hand.
StillFresh ==
    /\ stale # None
    /\ img # None
    /\ Val(t_now) - Val(img) < Val(stale)

\* No generation work for the plot at hand in this step: no directory made,
\* no line fetched or added, nothing saved or counted; the pass is at the
\* next plot.
NoWorkStep(outcome) ==
    /\ pc' = "begin"
    /\ plotno' = plotno + 1
    /\ status' = [status EXCEPT ![plotno] = outcome]
    /\ UNCHANGED <<dirs, ngen, line_list, call, stop_vec_t, error>>

\* In every state: the two checks come before any work on a plot, and a
\* plot they skipped has no directory made, no line fetched and no count.
C12_NoWork ==
    /\ (pc \in { "skip", "stale" } => plotno \notin dirs /\ call = NoCall)
    /\ \A p \in 1..NPlots :
          status[p] \in { "skipped", "fresh" } =>
              /\ p \notin dirs
              /\ call.plot # p
              /\ plotno > p
    /\ (pc \in { "line", "body" } => plotno \in dirs /\ status[plotno] = "pending")
    /\ ngen = Cardinality(Saved)

\* In every step: a plot skipThisPlot says to skip, or that is still fresh,
\* gets no work and the pass moves on; the staleness check skips for no
\* other reason, and never when stale_age is unset or the image is missing.
C12_Step ==
    /\ (pc = "skip" /\ skipThisPlot(Val(plotgen_ts), ai, img)) => NoWorkStep("skipped")
    /\ (pc = "stale" /\ StillFresh) => NoWorkStep("fresh")
    /\ (pc = "stale" /\ ~StillFresh) => pc' = "line" /\ plotno \in dirs'
    /\ (pc = "stale" /\ (stale = None \/ img = None)) => pc' = "line"

\* C12: for each plot the skip decision and the staleness check are both
\* evaluated before any generation work; if skipThisPlot returns true, or
\* stale_age is set and now - artifact_mtime < stale_age, no directory is
\* created, no line is fetched, nothing is saved or counted and the pass
\* moves on to the next plot; with stale_age unset or the image missing the
\* staleness check never skips.
C12_ChecksGate == [](C12_NoWork) /\ [][C12_Step]_vars

\* A pass whose first plot was skipped by skipThisPlot and whose second plot
\* was still fresh: no directory, no image, a count of 0.
C12_Witness ==
    /\ pc = "done"
    /\ status[1] = "skipped"
    /\ status[NPlots] = "fresh"
    /\ dirs = {}
    /\ ngen = 0

====
